---- MODULE Spec2Model ----
(***************************************************************************)
(* Model of mendeleev/tables.py: the ElectronicConfiguration parser        *)
(* (parse, sort, conf2str, maxn, slater_screening) and the Element methods *)
(* built on it (zeff, abselen, hardness, softness).                        *)
(*                                                                         *)
(* Strings are sequences of one-character strings.  An OrderedDict is a    *)
(* sequence of <<key, value>> pairs with pairwise distinct keys, a shell   *)
(* key being <<n, s>>.  Floating point values are fixed-point integers:    *)
(* screening constants and charges in hundredths, energies in whole units  *)
(* (all even, so that *0.5 is exact), softness in eighths.  ret is the     *)
(* call the caller made last with its outcome; resorted records that       *)
(* sort(inplace=True) has run on the object.                               *)
(***************************************************************************)
EXTENDS Integers, Sequences, FiniteSets, TLC

VARIABLES confstr, phase, core, valence, conf,
          atomic_number, sconst, ionenergies, electron_affinity, ret, resorted

vars == <<confstr, phase, core, valence, conf,
          atomic_number, sconst, ionenergies, electron_affinity, ret, resorted>>

(***************************************************************************)
(* Bounds of the model.                                                    *)
(***************************************************************************)
MaxTokens == 2
MaxN == 4
MaxDegree == 3

(***************************************************************************)
(* Characters and python's value None.                                     *)
(***************************************************************************)
None == [k |-> "None"]

Whitespace == {" ", "\t"}

DigitChars == <<"0", "1", "2", "3", "4", "5", "6", "7", "8", "9">>

Digits == {DigitChars[i] : i \in 1..10}

Upper == {"A", "B", "C", "D", "E", "F", "G", "H", "I", "J", "K", "L", "M",
          "N", "O", "P", "Q", "R", "S", "T", "U", "V", "W", "X", "Y", "Z"}

Lower == {"a", "b", "c", "d", "e", "f", "g", "h", "i", "j", "k", "l", "m",
          "n", "o", "p", "q", "r", "s", "t", "u", "v", "w", "x", "y", "z"}

subshells == <<"s", "p", "d", "f", "g", "h", "i", "j", "k">>

SubshellSet == {subshells[i] : i \in 1..Len(subshells)}

\* subshells.index(s), zero based as in python
SubshellIndex(s) == (CHOOSE i \in 1..Len(subshells) : subshells[i] = s) - 1

(***************************************************************************)
(* str.split(), str.join(), int() and "{:d}".format()                      *)
(***************************************************************************)
RECURSIVE SplitAcc(_, _, _)
SplitAcc(str, cur, acc) ==
    IF str = <<>>
    THEN IF cur = <<>> THEN acc ELSE Append(acc, cur)
    ELSE IF Head(str) \in Whitespace
         THEN SplitAcc(Tail(str), <<>>, IF cur = <<>> THEN acc ELSE Append(acc, cur))
         ELSE SplitAcc(Tail(str), Append(cur, Head(str)), acc)

Split(str) == SplitAcc(str, <<>>, <<>>)

RECURSIVE Join(_, _)
Join(strs, sep) ==
    IF strs = <<>> THEN <<>>
    ELSE IF Len(strs) = 1 THEN strs[1]
    ELSE strs[1] \o sep \o Join(Tail(strs), sep)

DigitVal(c) == (CHOOSE i \in 1..10 : DigitChars[i] = c) - 1

RECURSIVE StrToInt(_)
StrToInt(ds) ==
    IF ds = <<>> THEN 0
    ELSE 10 * StrToInt(SubSeq(ds, 1, Len(ds) - 1)) + DigitVal(ds[Len(ds)])

RECURSIVE IntToStr(_)
IntToStr(i) ==
    IF i < 10 THEN <<DigitChars[i + 1]>>
    ELSE IntToStr(i \div 10) \o <<DigitChars[(i % 10) + 1]>>

(***************************************************************************)
(* The two regular expressions, matched at the start of a token.           *)
(***************************************************************************)
RECURSIVE TakeWhile(_, _)
TakeWhile(str, class) ==
    IF str = <<>> \/ Head(str) \notin class THEN <<>>
    ELSE <<Head(str)>> \o TakeWhile(Tail(str), class)

\* atomre = \[([A-Z][a-z]*)\]
AtomMatch(tok) ==
    IF Len(tok) >= 2 /\ tok[1] = "[" /\ tok[2] \in Upper
    THEN LET low == TakeWhile(SubSeq(tok, 3, Len(tok)), Lower)
             close == 3 + Len(low)
         IN  IF close <= Len(tok) /\ tok[close] = "]"
             THEN [ok |-> TRUE, symbol |-> <<tok[2]>> \o low]
             ELSE [ok |-> FALSE]
    ELSE [ok |-> FALSE]

\* shellre with (?P<e>\d)? in place of (?P<e>\d+)?
ShellMatch_single_digit(tok) ==
    IF Len(tok) >= 2 /\ tok[1] \in Digits /\ tok[2] \in SubshellSet
    THEN [ok |-> TRUE, n |-> <<tok[1]>>, s |-> tok[2],
          e |-> IF Len(tok) >= 3 /\ tok[3] \in Digits
                THEN [k |-> "str", v |-> <<tok[3]>>] ELSE None]
    ELSE [ok |-> FALSE]

\* shellre = (?P<n>\d)(?P<s>[spdfghijk])(?P<e>\d+)?
ShellMatch(tok) ==
    IF Len(tok) >= 2 /\ tok[1] \in Digits /\ tok[2] \in SubshellSet
    THEN LET ds == TakeWhile(SubSeq(tok, 3, Len(tok)), Digits)
         IN  [ok |-> TRUE, n |-> <<tok[1]>>, s |-> tok[2],
              e |-> IF ds = <<>> THEN None ELSE [k |-> "str", v |-> ds]]
    ELSE [ok |-> FALSE]

(***************************************************************************)
(* The noble gas table of ElectronicConfiguration.__init__                 *)
(***************************************************************************)
Tok(n, s, e) == <<n, s>> \o e

HeConf == <<Tok("1", "s", <<"2">>)>>
NeConf == HeConf \o <<Tok("2", "s", <<"2">>), Tok("2", "p", <<"6">>)>>
ArConf == NeConf \o <<Tok("3", "s", <<"2">>), Tok("3", "p", <<"6">>)>>
KrConf == ArConf \o <<Tok("4", "s", <<"2">>), Tok("3", "d", <<"1", "0">>),
                      Tok("4", "p", <<"6">>)>>
XeConf == KrConf \o <<Tok("5", "s", <<"2">>), Tok("4", "d", <<"1", "0">>),
                      Tok("5", "p", <<"6">>)>>
RnConf == XeConf \o <<Tok("6", "s", <<"2">>), Tok("4", "f", <<"1", "4">>),
                      Tok("5", "d", <<"1", "0">>), Tok("6", "p", <<"6">>)>>

NobleSymbols == {<<"H", "e">>, <<"N", "e">>, <<"A", "r">>, <<"K", "r">>,
                 <<"X", "e">>, <<"R", "n">>}

noble(symbol) ==
    Join(CASE symbol = <<"H", "e">> -> HeConf
           [] symbol = <<"N", "e">> -> NeConf
           [] symbol = <<"A", "r">> -> ArConf
           [] symbol = <<"K", "r">> -> KrConf
           [] symbol = <<"X", "e">> -> XeConf
           [] symbol = <<"R", "n">> -> RnConf, <<" ">>)

(***************************************************************************)
(* OrderedDict                                                             *)
(***************************************************************************)
Keys(od) == {od[i][1] : i \in 1..Len(od)}

Get(od, key) == (CHOOSE i \in 1..Len(od) : od[i][1] = key)

Value(od, key) == od[Get(od, key)][2]

\* a mapping in which a repeated key keeps its first value
RECURSIVE OrderedDictAcc_keep_first(_, _)
OrderedDictAcc_keep_first(pairs, od) ==
    IF pairs = <<>> THEN od
    ELSE OrderedDictAcc_keep_first(Tail(pairs),
             IF Head(pairs)[1] \in Keys(od) THEN od ELSE Append(od, Head(pairs)))

\* OrderedDict(pairs): a repeated key keeps its first position and takes the
\* last value
RECURSIVE OrderedDictAcc(_, _)
OrderedDictAcc(pairs, od) ==
    IF pairs = <<>> THEN od
    ELSE LET p == Head(pairs)
         IN  OrderedDictAcc(Tail(pairs),
                 IF p[1] \in Keys(od)
                 THEN [od EXCEPT ![Get(od, p[1])] = p]
                 ELSE Append(od, p))

OrderedDict(pairs) == OrderedDictAcc(pairs, <<>>)

(***************************************************************************)
(* ElectronicConfiguration.parse                                           *)
(***************************************************************************)
\* [self.shellre.match(s).group('n', 's', 'e') for s in items if self.shellre.match(s)]
RECURSIVE MatchShells(_)
MatchShells(items) ==
    IF items = <<>> THEN <<>>
    ELSE LET m == ShellMatch(Head(items))
         IN  (IF m.ok THEN <<m>> ELSE <<>>) \o MatchShells(Tail(items))

\* the items with occupancy 0 for a token that gives none
ShellItems_default_zero(groups) ==
    [i \in 1..Len(groups) |->
        <<  <<StrToInt(groups[i].n), groups[i].s>>,
            IF groups[i].e /= None THEN StrToInt(groups[i].e.v) ELSE 0 >>]

\* [((int(n), s), (int(e) if e is not None else 1)) for (n, s, e) in groups]
ShellItems(groups) ==
    [i \in 1..Len(groups) |->
        <<  <<StrToInt(groups[i].n), groups[i].s>>,
            IF groups[i].e /= None THEN StrToInt(groups[i].e.v) ELSE 1 >>]

\* parse with conf built from the valence items followed by the core items
ParseValenceFirst(str) ==
    LET citems == Split(str)
    IN  IF citems = <<>>
        THEN [exc |-> "IndexError"]
        ELSE LET am == AtomMatch(citems[1])
             IN  IF am.ok /\ am.symbol \notin NobleSymbols
                 THEN [exc |-> "KeyError"]
                 ELSE LET rest == IF am.ok THEN Tail(citems) ELSE citems
                          c == IF am.ok
                               THEN OrderedDict(ShellItems(MatchShells(Split(noble(am.symbol)))))
                               ELSE <<>>
                          v == OrderedDict(ShellItems(MatchShells(rest)))
                      IN  [exc |-> "", core |-> c, valence |-> v,
                           conf |-> OrderedDict(v \o c)]

\* The outcome of parse on a configuration string: the exception raised, or
\* the three mappings.
ParseResult(str) ==
    LET citems == Split(str)
    IN  IF citems = <<>>
        THEN [exc |-> "IndexError"]
        ELSE LET am == AtomMatch(citems[1])
             IN  IF am.ok /\ am.symbol \notin NobleSymbols
                 THEN [exc |-> "KeyError"]
                 ELSE LET rest == IF am.ok THEN Tail(citems) ELSE citems
                          c == IF am.ok
                               THEN OrderedDict(ShellItems(MatchShells(Split(noble(am.symbol)))))
                               ELSE <<>>
                          v == OrderedDict(ShellItems(MatchShells(rest)))
                      IN  [exc |-> "", core |-> c, valence |-> v,
                           conf |-> OrderedDict(c \o v)]

(***************************************************************************)
(* ElectronicConfiguration.sort, conf2str, maxn, slater_screening          *)
(***************************************************************************)
\* key=lambda x: x[0][0], the principal quantum number alone
KeyLess_by_n(a, b) == a[1][1] < b[1][1]

\* key=lambda x: (x[0][0]+subshells.index(x[0][1]), x[0][0]), compared as tuples
KeyLess(a, b) ==
    LET ka == a[1][1] + SubshellIndex(a[1][2])
        kb == b[1][1] + SubshellIndex(b[1][2])
    IN  ka < kb \/ (ka = kb /\ a[1][1] < b[1][1])

\* an insertion that overwrites the element it should go in front of
RECURSIVE InsertSorted_replaces_head(_, _)
InsertSorted_replaces_head(item, acc) ==
    IF acc = <<>> THEN <<item>>
    ELSE IF KeyLess(item, Head(acc)) THEN <<item>> \o Tail(acc)
    ELSE <<Head(acc)>> \o InsertSorted_replaces_head(item, Tail(acc))

\* insert item behind every element that is not greater (stable)
RECURSIVE InsertSorted(_, _)
InsertSorted(item, acc) ==
    IF acc = <<>> THEN <<item>>
    ELSE IF KeyLess(item, Head(acc)) THEN <<item>> \o acc
    ELSE <<Head(acc)>> \o InsertSorted(item, Tail(acc))

\* sorted(items, key=...)
RECURSIVE Sorted(_)
Sorted(items) ==
    IF items = <<>> THEN <<>>
    ELSE InsertSorted(items[Len(items)], Sorted(SubSeq(items, 1, Len(items) - 1)))

\* "{n:d}{s:s}{e:d}".format(n=k[0], s=k[1], e=v)
FormatShell(item) == IntToStr(item[1][1]) \o <<item[1][2]>> \o IntToStr(item[2])

conf2str(dictlike) ==
    Join([i \in 1..Len(dictlike) |-> FormatShell(dictlike[i])], <<" ">>)

SetMax(S) == CHOOSE x \in S : \A y \in S : y <= x

\* maxn taking the smallest principal quantum number
maxn_takes_min(od) ==
    IF od = <<>> THEN [k |-> "exc", v |-> "ValueError"]
    ELSE [k |-> "val",
          v |-> CHOOSE x \in {od[i][1][1] : i \in 1..Len(od)} :
                    \A i \in 1..Len(od) : x <= od[i][1][1]]

\* max([shell[0] for shell in self.conf.keys()]); max of an empty list raises
maxn(od) ==
    IF od = <<>> THEN [k |-> "exc", v |-> "ValueError"]
    ELSE [k |-> "val", v |-> SetMax({od[i][1][1] : i \in 1..Len(od)})]

\* sum([weight*v for k, v in od.items() if k in K]) for a weight in hundredths
RECURSIVE SumWhere(_, _, _)
SumWhere(od, K, weight) ==
    IF od = <<>> THEN 0
    ELSE (IF Head(od)[1] \in K THEN weight * Head(od)[2] ELSE 0)
         + SumWhere(Tail(od), K, weight)

\* slater_screening with range(1, n) in place of range(1, n-1) for s and p
slater_range_off_by_one(od, n, s) ==
    LET coeff == IF n = 1 THEN 30 ELSE 35
        keys == Keys(od)
    IN  IF s \in {"s", "p"}
        THEN LET vale == SumWhere(od, {k \in keys : k[1] = n /\ k[2] \in {"s", "p"}}, 1) - 1
                 n1 == SumWhere(od, {k \in keys : k[1] = n - 1}, 85)
                 n2 == SumWhere(od, {k \in keys : k[1] \in 1..(n - 1)}, 100)
             IN  [k |-> "val", v |-> n1 + n2 + vale * coeff]
        ELSE IF s \in {"d", "f"}
        THEN LET vale == SumWhere(od, {k \in keys : k[1] = n /\ k[2] = s}, 1) - 1
                 n1 == SumWhere(od, {k \in keys : k[1] = n /\ k[2] /= s}, 100)
                 n2 == SumWhere(od, {k \in keys : k[1] \in 1..(n - 1)}, 100)
             IN  [k |-> "val", v |-> n1 + n2 + vale * coeff]
        ELSE [k |-> "exc", v |-> "ValueError"]

\* slater_screening(n, s) in hundredths: coeff is 0.3 or 0.35, the weights
\* are float(v) and v*0.85, range(1, m) is 1..m-1
slater_screening(od, n, s) ==
    LET coeff == IF n = 1 THEN 30 ELSE 35
        keys == Keys(od)
    IN  IF s \in {"s", "p"}
        THEN LET vale == SumWhere(od, {k \in keys : k[1] = n /\ k[2] \in {"s", "p"}}, 1) - 1
                 n1 == SumWhere(od, {k \in keys : k[1] = n - 1}, 85)
                 n2 == SumWhere(od, {k \in keys : k[1] \in 1..(n - 2)}, 100)
             IN  [k |-> "val", v |-> n1 + n2 + vale * coeff]
        ELSE IF s \in {"d", "f"}
        THEN LET vale == SumWhere(od, {k \in keys : k[1] = n /\ k[2] = s}, 1) - 1
                 n1 == SumWhere(od, {k \in keys : k[1] = n /\ k[2] /= s}, 100)
                 n2 == SumWhere(od, {k \in keys : k[1] \in 1..(n - 1)}, 100)
             IN  [k |-> "val", v |-> n1 + n2 + vale * coeff]
        ELSE [k |-> "exc", v |-> "ValueError"]

(***************************************************************************)
(* Element.zeff                                                            *)
(***************************************************************************)
IntArg(i) == [k |-> "int", v |-> i]
FloatArg(tenths) == [k |-> "float", v |-> tenths]
StrArg(s) == [k |-> "str", v |-> s]

\* method.lower()
StrLower(m) ==
    CASE m \in {"Slater", "SLATER"} -> "slater"
      [] m \in {"Clementi", "CLEMENTI"} -> "clementi"
      [] OTHER -> m

zeff(od, Z, sc, n, s, method) ==
    LET nres == IF n = None THEN maxn(od)
                ELSE IF n.k /= "int" THEN [k |-> "exc", v |-> "NameError"]
                ELSE [k |-> "val", v |-> n.v]
    IN  IF nres.k = "exc" THEN nres
        ELSE
        LET nn == nres.v
            idx == {SubshellIndex(od[i][1][2]) : i \in {j \in 1..Len(od) : od[j][1][1] = nn}}
            sres == IF s = None
                    THEN IF idx = {} THEN [k |-> "exc", v |-> "ValueError"]
                         ELSE [k |-> "val", v |-> subshells[SetMax(idx) + 1]]
                    ELSE IF s.v \notin SubshellSet THEN [k |-> "exc", v |-> "ValueError"]
                    ELSE [k |-> "val", v |-> s.v]
        IN  IF sres.k = "exc" THEN sres
            ELSE
            LET ss == sres.v
            IN  IF StrLower(method) = "slater"
                THEN LET sig == slater_screening(od, nn, ss)
                     IN  IF sig.k = "exc" THEN sig
                         ELSE [k |-> "val", v |-> 100 * Z - sig.v]
                ELSE IF StrLower(method) = "clementi"
                THEN IF <<nn, ss>> \in DOMAIN sc
                     THEN [k |-> "val", v |-> 100 * Z - sc[<<nn, ss>>]]
                     ELSE [k |-> "exc", v |-> "KeyError"]
                ELSE [k |-> "exc", v |-> "ValueError"]

(***************************************************************************)
(* Element.abselen, hardness, softness                                     *)
(***************************************************************************)
\* self.ionenergies.get(degree, None)
IonGet(ie, degree) == IF degree \in DOMAIN ie THEN ie[degree] ELSE None

\* x*0.5
Half(x) == x \div 2

abselen(ie, ea, charge) ==
    IF charge = 0
    THEN IF IonGet(ie, 1) /= None /\ ea /= None
         THEN [k |-> "val", v |-> Half(ie[1].v + ea.v)]
         ELSE None
    ELSE IF charge > 0
    THEN IF IonGet(ie, charge + 1) /= None /\ IonGet(ie, charge) /= None
         THEN [k |-> "val", v |-> Half(ie[charge + 1].v + ie[charge].v)]
         ELSE None
    ELSE [k |-> "exc", v |-> "ValueError"]

\* hardness with the operands of the difference exchanged for charge > 0
hardness_swapped(ie, ea, charge) ==
    IF charge = 0
    THEN IF IonGet(ie, 1) /= None /\ ea /= None
         THEN [k |-> "val", v |-> Half(ie[1].v - ea.v)]
         ELSE None
    ELSE IF charge > 0
    THEN IF IonGet(ie, charge + 1) /= None /\ IonGet(ie, charge) /= None
         THEN [k |-> "val", v |-> Half(ie[charge].v - ie[charge + 1].v)]
         ELSE None
    ELSE [k |-> "exc", v |-> "ValueError"]

hardness(ie, ea, charge) ==
    IF charge = 0
    THEN IF IonGet(ie, 1) /= None /\ ea /= None
         THEN [k |-> "val", v |-> Half(ie[1].v - ea.v)]
         ELSE None
    ELSE IF charge > 0
    THEN IF IonGet(ie, charge + 1) /= None /\ IonGet(ie, charge) /= None
         THEN [k |-> "val", v |-> Half(ie[charge + 1].v - ie[charge].v)]
         ELSE None
    ELSE [k |-> "exc", v |-> "ValueError"]

\* softness computed as 1.0/eta
softness_no_factor_two(ie, ea, charge) ==
    LET eta == hardness(ie, ea, charge)
    IN  IF eta.k = "exc" THEN eta
        ELSE IF eta = None THEN None
        ELSE IF eta.v = 0 THEN [k |-> "exc", v |-> "ZeroDivisionError"]
        ELSE [k |-> "val", v |-> 8 \div eta.v]

\* 1.0/(2.0*eta), in eighths (the energies of the model make the quotient
\* exact); python raises on division by zero
softness(ie, ea, charge) ==
    LET eta == hardness(ie, ea, charge)
    IN  IF eta.k = "exc" THEN eta
        ELSE IF eta = None THEN None
        ELSE IF 2 * eta.v = 0 THEN [k |-> "exc", v |-> "ZeroDivisionError"]
        ELSE [k |-> "val", v |-> 8 \div (2 * eta.v)]

(***************************************************************************)
(* Inputs: configuration strings and element records                       *)
(***************************************************************************)
Bracket(symbol) == <<"[">> \o symbol \o <<"]">>

\* a first token that atomre matches: the six noble gases and an unknown one
AtomTokens == {Bracket(g) : g \in NobleSymbols} \cup {Bracket(<<"X", "x">>)}

\* further tokens: shells (occupancy absent, plain, with a leading zero, a
\* repeated key, n = 0 with three electrons in an s subshell) and a token
\* shellre does not match
ShellTokens ==
    { Tok("2", "p", <<>>), Tok("3", "d", <<"0", "2">>), Tok("3", "d", <<"1", "0">>),
      Tok("4", "s", <<"2">>), Tok("0", "s", <<"3">>), <<"3", "S", "2">> }

RECURSIVE SeqsUpTo(_, _)
SeqsUpTo(S, len) ==
    IF len = 0 THEN {<<>>}
    ELSE LET shorter == SeqsUpTo(S, len - 1)
         IN  shorter \cup {Append(q, x) : q \in {r \in shorter : Len(r) = len - 1}, x \in S}

TokenSeqs ==
    {pre \o vs : pre \in {<<>>} \cup {<<a>> : a \in AtomTokens},
                 vs \in SeqsUpTo(ShellTokens, MaxTokens)}

ConfStrings ==
    {Join(ts, <<" ">>) : ts \in TokenSeqs}
    \cup {<<" ">> \o Join(ts, <<"\t", " ">>) \o <<" ", " ">> :
             ts \in {q \in TokenSeqs : Len(q) <= 2}}
    \cup {<<>>, <<" ">>, <<"\t", " ">>}

\* "1s2 2s2 2p6 3s2 3p6 3d10 4s2"
ZincConf ==
    Join(ArConf \o <<Tok("3", "d", <<"1", "0">>), Tok("4", "s", <<"2">>)>>, <<" ">>)

\* "[Ne] 3s1"
SodiumConf == Join(<<Bracket(<<"N", "e">>), Tok("3", "s", <<"1">>)>>, <<" ">>)

FloatVal(x) == [k |-> "val", v |-> x]

Energies == {4, 12}

Affinities == {None, FloatVal(4), FloatVal(8)}

\* partial series: a degree is missing, or maps to None or to an energy
IonizationSeries ==
    UNION {[D -> {None} \cup {FloatVal(e) : e \in Energies}] : D \in SUBSET (1..MaxDegree)}

SodiumSeries == (1 :> FloatVal(4)) @@ (2 :> FloatVal(12))

SodiumSconst ==
    (<<1, "s">> :> 37) @@ (<<2, "s">> :> 485) @@ (<<2, "p">> :> 420) @@ (<<3, "s">> :> 849)

NArgs == {None, FloatArg(25)} \cup {IntArg(i) : i \in -1..MaxN}

SArgs == {None} \cup {StrArg(x) : x \in {"s", "p", "d", "f", "g", "x"}}

Methods == {"slater", "clementi", "pauling"}

\* the caller holds no result
Idle == [op |-> "idle", args |-> <<>>, out |-> None]

Charges == -1..MaxDegree

Init ==
    /\ phase = "new"
    /\ core = <<>> /\ valence = <<>> /\ conf = <<>>
    /\ ret = Idle
    /\ resorted = FALSE
    /\ \/ /\ confstr \in ConfStrings \cup {SodiumConf}
          /\ atomic_number = 11
          /\ sconst = SodiumSconst
          /\ ionenergies = SodiumSeries
          /\ electron_affinity = FloatVal(0)
       \/ /\ confstr = ZincConf
          /\ atomic_number = 30
          /\ sconst = <<>>
          /\ ionenergies \in IonizationSeries
          /\ electron_affinity \in Affinities

(***************************************************************************)
(* Actions: one per method                                                 *)
(***************************************************************************)
elem == <<atomic_number, sconst, ionenergies, electron_affinity>>

\* ElectronicConfiguration.__init__ / Element.init_on_load
Parse ==
    /\ phase = "new"
    /\ ret = Idle
    /\ LET r == ParseResult(confstr)
       IN  IF r.exc /= ""
           THEN /\ phase' = "failed"
                /\ ret' = [op |-> "parse", args |-> <<>>, out |-> [k |-> "exc", v |-> r.exc]]
                /\ UNCHANGED <<core, valence, conf>>
           ELSE /\ phase' = "parsed"
                /\ core' = r.core
                /\ valence' = r.valence
                /\ conf' = r.conf
                /\ ret' = [op |-> "parse", args |-> <<>>, out |-> None]
    /\ UNCHANGED <<confstr, elem, resorted>>

Sort(inplace) ==
    /\ phase = "parsed"
    /\ ret = Idle
    /\ conf' = IF inplace THEN OrderedDict(Sorted(conf)) ELSE conf
    /\ resorted' = (resorted \/ inplace)
    /\ ret' = [op |-> "sort", args |-> <<inplace>>, out |-> None]
    /\ UNCHANGED <<confstr, phase, core, valence, elem>>

\* a method that only reads the object
Call(op, args, out) ==
    /\ phase = "parsed"
    /\ ret = Idle
    /\ ret' = [op |-> op, args |-> args, out |-> out]
    /\ UNCHANGED <<confstr, phase, core, valence, conf, elem, resorted>>

Maxn == Call("maxn", <<>>, maxn(conf))

Str == Call("str", <<>>, [k |-> "str", v |-> conf2str(conf)])

Zeff(n, s, method) ==
    Call("zeff", <<n, s, method>>, zeff(conf, atomic_number, sconst, n, s, method))

Abselen(charge) ==
    Call("abselen", <<charge>>, abselen(ionenergies, electron_affinity, charge))

Hardness(charge) ==
    Call("hardness", <<charge>>, hardness(ionenergies, electron_affinity, charge))

Softness(charge) ==
    Call("softness", <<charge>>, softness(ionenergies, electron_affinity, charge))

\* the single-threaded caller takes the result (or the exception) of the
\* call it made before it makes the next one
Return ==
    /\ ret /= Idle
    /\ ret' = Idle
    /\ UNCHANGED <<confstr, phase, core, valence, conf, elem, resorted>>

Next ==
    \/ Parse
    \/ Return
    \/ \E inplace \in BOOLEAN : Sort(inplace)
    \/ Maxn
    \/ Str
    \/ \E n \in NArgs, s \in SArgs, method \in Methods : Zeff(n, s, method)
    \/ \E charge \in Charges : Abselen(charge)
    \/ \E charge \in Charges : Hardness(charge)
    \/ \E charge \in Charges : Softness(charge)

Spec == Init /\ [][Next]_vars

(***************************************************************************)
(* Properties                                                              *)
(***************************************************************************)
Val(x) == [k |-> "val", v |-> x]

\* total occupancy of the shells of od with a key in K
RECURSIVE SumValues(_, _)
SumValues(od, K) ==
    IF K = {} THEN 0
    ELSE LET key == CHOOSE x \in K : TRUE
         IN  Value(od, key) + SumValues(od, K \ {key})

\* every shell has a positive principal quantum number
ValidShells(od) == \A key \in Keys(od) : key[1] >= 1

\* Slater's sigma in hundredths, from the mapping alone
SlaterReference(od, n, s) ==
    LET c == IF n = 1 THEN 30 ELSE 35
        Core == {key \in Keys(od) : key[1] >= 1 /\ key[1] <= n - 2}
        Adjacent == {key \in Keys(od) : key[1] = n - 1}
        SameSP == Keys(od) \cap {<<n, "s">>, <<n, "p">>}
        SameOther == {key \in Keys(od) : key[1] = n /\ key[2] /= s}
        Inner == {key \in Keys(od) : key[1] < n}
        Same == Keys(od) \cap {<<n, s>>}
    IN  IF s \in {"s", "p"}
        THEN 100 * SumValues(od, Core) + 85 * SumValues(od, Adjacent)
             + c * (SumValues(od, SameSP) - 1)
        ELSE 100 * SumValues(od, SameOther) + 100 * SumValues(od, Inner)
             + c * (SumValues(od, Same) - 1)

SlaterCall ==
    /\ ret.op = "zeff"
    /\ ret.args[3] = "slater"
    /\ ret.args[1].k = "int"
    /\ ret.args[2].k = "str"
    /\ ret.args[2].v \in {"s", "p", "d", "f"}

\* C1: for a configuration of shells with positive n and a requested (n, s)
\* with s among s, p, d, f, zeff(method='slater') returns
\* atomic_number - sigma, sigma being Slater's reference value of conf.
C1_SlaterCharge ==
    (SlaterCall /\ ValidShells(conf)) =>
        ret.out = Val(100 * atomic_number
                      - SlaterReference(conf, ret.args[1].v, ret.args[2].v))

C1_Witness ==
    /\ SlaterCall
    /\ ValidShells(conf)
    /\ ret.args[1].v = 4 /\ ret.args[2].v = "d"
    /\ {<<3, "d">>, <<4, "s">>, <<4, "d">>} \subseteq Keys(conf)
    /\ ret.out.k = "val"

ZincCall ==
    /\ ret.op = "zeff"
    /\ confstr = ZincConf
    /\ ret.args = <<IntArg(4), StrArg("s"), "slater">>

\* C2 as claimed: for "1s2 2s2 2p6 3s2 3p6 3d10 4s2" Slater screening at
\* n=4, s='s' gives sigma = 18.85, so the effective charge is Z - 18.85.
C2_Claimed == ZincCall => ret.out = Val(100 * atomic_number - 1885)

\* C2 amended: for "1s2 2s2 2p6 3s2 3p6 3d10 4s2" Slater screening at n=4,
\* s='s' gives sigma = 25.65 (innerAdjacent = 0.85 x 18), so the effective
\* charge is Z - 25.65.
C2_ZincCharge == ZincCall => ret.out = Val(100 * atomic_number - 2565)

C2_Witness == ZincCall /\ ret.out.k = "val" /\ conf = ParseResult(ZincConf).conf

\* the input is "[G] V" with G a noble gas of the table
Abbreviated(str) ==
    /\ Split(str) /= <<>>
    /\ \E g \in NobleSymbols : Split(str)[1] = Bracket(g)

\* "[G] V" with [G] replaced by the configuration of G
Expanded(str) ==
    LET citems == Split(str)
    IN  noble(AtomMatch(citems[1]).symbol) \o <<" ">> \o Join(Tail(citems), <<" ">>)

\* C3: parsing "[G] V" gives the same conf, in the same order, as parsing the
\* configuration of G followed by V.
C3_AbbreviationExpansion ==
    (ret.op = "parse" /\ Abbreviated(confstr)) =>
        /\ phase = "parsed"
        /\ ParseResult(Expanded(confstr)).exc = ""
        /\ conf = ParseResult(Expanded(confstr)).conf

C3_Witness ==
    /\ ret.op = "parse"
    /\ Abbreviated(confstr)
    /\ Len(Split(confstr)) = 3
    /\ Keys(core) \cap Keys(valence) /= {}
    /\ Keys(valence) \ Keys(core) /= {}

Blank(str) == \A i \in 1..Len(str) : str[i] \in Whitespace

\* C4 as claimed: parsing an empty or whitespace-only string does not fail and
\* leaves core, valence and conf empty.
C4_Claimed ==
    (ret.op = "parse" /\ Blank(confstr)) =>
        /\ ret.out.k /= "exc"
        /\ phase = "parsed"
        /\ core = <<>> /\ valence = <<>> /\ conf = <<>>

\* C5 as claimed: zeff with an explicit n that is not a positive integer
\* fails, for every method and every s, and returns no numeric charge.
C5_Claimed ==
    (/\ ret.op = "zeff"
     /\ ret.args[1] /= None
     /\ ~(ret.args[1].k = "int" /\ ret.args[1].v >= 1)) =>
        ret.out.k = "exc"

\* what abselen (sign = 1) and hardness (sign = -1) are to return
ReactivityReference(sign, ie, ea, charge, out) ==
    IF charge < 0 THEN out = [k |-> "exc", v |-> "ValueError"]
    ELSE IF charge = 0
    THEN IF 1 \in DOMAIN ie /\ ie[1] /= None /\ ea /= None
         THEN out.k = "val" /\ 2 * out.v = ie[1].v + sign * ea.v
         ELSE out = None
    ELSE IF /\ {charge, charge + 1} \subseteq DOMAIN ie
            /\ ie[charge] /= None /\ ie[charge + 1] /= None
         THEN out.k = "val" /\ 2 * out.v = ie[charge + 1].v + sign * ie[charge].v
         ELSE out = None

\* C6: abselen and hardness fail for charge < 0; for charge = 0 they return
\* (I1 + A)/2 resp. (I1 - A)/2 when I1 and A are present and None otherwise;
\* for charge > 0 they return (I[charge+1] +/- I[charge])/2 when both energies
\* are present and None otherwise.
C6_Reactivity ==
    /\ ret.op = "abselen" =>
          ReactivityReference(1, ionenergies, electron_affinity, ret.args[1], ret.out)
    /\ ret.op = "hardness" =>
          ReactivityReference(-1, ionenergies, electron_affinity, ret.args[1], ret.out)

C6_Witness ==
    /\ ret.op = "hardness"
    /\ ret.args[1] = 2
    /\ ret.out.k = "val"
    /\ ret.out.v < 0

\* C7 as claimed: for charge >= 0 softness returns None exactly when hardness
\* is None and otherwise a value equal to 1/(2*hardness), also when hardness
\* is 0.
C7_Claimed ==
    (ret.op = "softness" /\ ret.args[1] >= 0) =>
        LET eta == hardness(ionenergies, electron_affinity, ret.args[1])
        IN  IF eta = None THEN ret.out = None
            ELSE ret.out.k = "val" /\ ret.out.v * 2 * eta.v = 8

\* C7 amended: for charge >= 0 softness returns None exactly when hardness is
\* None, returns 1/(2*hardness) when hardness is a nonzero value, and fails
\* with a division by zero when hardness is 0.
C7_Softness ==
    (ret.op = "softness" /\ ret.args[1] >= 0) =>
        LET eta == hardness(ionenergies, electron_affinity, ret.args[1])
        IN  IF eta = None THEN ret.out = None
            ELSE IF eta.v = 0 THEN ret.out = [k |-> "exc", v |-> "ZeroDivisionError"]
            ELSE ret.out.k = "val" /\ ret.out.v * 2 * eta.v = 8

C7_Witness ==
    /\ ret.op = "softness"
    /\ ret.args[1] = 1
    /\ ret.out.k = "val"
    /\ hardness(ionenergies, electron_affinity, 1).k = "val"

\* a token n s e with an explicit occupancy and nothing else
ExplicitShellToken(tok) ==
    /\ Len(tok) >= 3
    /\ tok[1] \in Digits
    /\ tok[2] \in SubshellSet
    /\ \A i \in 3..Len(tok) : tok[i] \in Digits

\* ascending by n + index(s), ties broken by ascending n
CanonicalBefore(a, b) ==
    LET na == DigitVal(a[1])
        nb == DigitVal(b[1])
        ka == na + SubshellIndex(a[2])
        kb == nb + SubshellIndex(b[2])
    IN  ka < kb \/ (ka = kb /\ na < nb)

CanonicalInput(str) ==
    LET ts == Split(str)
    IN  /\ ts /= <<>>
        /\ \A i \in 1..Len(ts) : ExplicitShellToken(ts[i])
        /\ \A i \in 1..(Len(ts) - 1) : CanonicalBefore(ts[i], ts[i + 1])

NoLeadingZeros(str) ==
    \A i \in 1..Len(Split(str)) :
        LET tok == Split(str)[i] IN Len(tok) = 3 \/ tok[3] /= "0"

\* C8 as claimed: a string of distinct shells with explicit occupancies in
\* canonical order, parsed, sorted and rendered, gives back its tokens joined
\* by single spaces.
C8_Claimed ==
    (ret.op = "str" /\ resorted /\ CanonicalInput(confstr)) =>
        ret.out.v = Join(Split(confstr), <<" ">>)

\* C8 amended: the same, for occupancies written without leading zeros.
C8_RoundTrip ==
    (ret.op = "str" /\ resorted /\ CanonicalInput(confstr) /\ NoLeadingZeros(confstr)) =>
        ret.out.v = Join(Split(confstr), <<" ">>)

C8_Witness ==
    /\ ret.op = "str"
    /\ resorted
    /\ CanonicalInput(confstr)
    /\ NoLeadingZeros(confstr)
    /\ Len(Split(confstr)) = 2
    /\ DigitVal(Split(confstr)[1][1]) > DigitVal(Split(confstr)[2][1])

\* the occupancy of the last token of the input, behind the abbreviation, that
\* names the shell key
LastOccupancy(str, key) ==
    LET citems == Split(str)
        rest == IF AtomMatch(citems[1]).ok THEN Tail(citems) ELSE citems
        Names(i) == /\ ShellMatch(rest[i]).ok
                    /\ <<StrToInt(ShellMatch(rest[i]).n), ShellMatch(rest[i]).s>> = key
        last == SetMax({i \in 1..Len(rest) : Names(i)})
        m == ShellMatch(rest[last])
    IN  IF m.e = None THEN 1 ELSE StrToInt(m.e.v)

\* C9: after a successful parse, and after any sort, the keys of conf are those of core and of
\* valence together; conf holds the valence occupancy of a key of valence and
\* the core occupancy of any other key; valence holds the occupancy of the
\* last token that names the key.
C9_ConfUnion ==
    (phase = "parsed" /\ ret.op \in {"parse", "sort", "idle"}) =>
        /\ Keys(conf) = Keys(core) \cup Keys(valence)
        /\ Len(conf) = Cardinality(Keys(conf))
        /\ \A key \in Keys(conf) :
              Value(conf, key) = IF key \in Keys(valence) THEN Value(valence, key)
                                 ELSE Value(core, key)
        /\ \A key \in Keys(valence) : Value(valence, key) = LastOccupancy(confstr, key)

C9_Witness ==
    /\ ret.op = "parse"
    /\ confstr = Join(<<Bracket(<<"K", "r">>), Tok("3", "d", <<"1", "0">>),
                        Tok("3", "d", <<"0", "2">>)>>, <<" ">>)
    /\ Value(core, <<3, "d">>) = 10
    /\ Value(conf, <<3, "d">>) = 2

SameContent(a, b) ==
    /\ Keys(a) = Keys(b)
    /\ Len(a) = Len(b)
    /\ \A key \in Keys(a) : Value(a, key) = Value(b, key)

\* C10: a call of sort, with inplace true or false, leaves core and valence
\* as they are and conf with the same keys and occupancies, so that maxn and
\* slater_screening(n, s) for every (n, s) return what they returned before.
C10_SortFrame ==
    [][ret'.op = "sort" =>
          /\ core' = core
          /\ valence' = valence
          /\ SameContent(conf', conf)
          /\ maxn(conf') = maxn(conf)
          /\ \A n \in -1..(MaxN + 1), s \in SubshellSet \cup {"x"} :
                slater_screening(conf', n, s) = slater_screening(conf, n, s)]_vars

C10_Witness ==
    /\ ret.op = "sort"
    /\ resorted
    /\ conf /= ParseResult(confstr).conf
    /\ Len(conf) >= 3

\* the greatest principal quantum number among the keys of a mapping
DefaultN(od) ==
    CHOOSE n \in {key[1] : key \in Keys(od)} : \A key \in Keys(od) : key[1] <= n

\* the subshell of greatest canonical index among the keys with principal
\* quantum number n
DefaultS(od, n) ==
    CHOOSE s \in SubshellSet :
        /\ <<n, s>> \in Keys(od)
        /\ \A key \in Keys(od) : key[1] = n => SubshellIndex(key[2]) <= SubshellIndex(s)

\* a zeff call on a non-empty conf that leaves out n or s, n being an integer
\* when given; with s left out, conf has a shell at n
DefaultCall ==
    /\ ret.op = "zeff"
    /\ conf /= <<>>
    /\ ret.args[1] = None \/ ret.args[2] = None
    /\ ret.args[1] = None \/ ret.args[1].k = "int"
    /\ (ret.args[1] /= None /\ ret.args[2] = None) =>
          \E key \in Keys(conf) : key[1] = ret.args[1].v

Capacity(s) == 2 * (2 * SubshellIndex(s) + 1)

\* every key of the mapping has a positive n and a canonical subshell, every
\* occupancy is positive and within the capacity of its subshell
WithinBounds(od) ==
    \A i \in 1..Len(od) :
        /\ od[i][1][1] >= 1
        /\ od[i][1][2] \in SubshellSet
        /\ od[i][2] >= 1
        /\ od[i][2] <= Capacity(od[i][1][2])

\* every token of the input that the shell pattern matches, behind the
\* abbreviation, writes a positive n and an occupancy that is left out or
\* lies between 1 and the capacity of its subshell
TokensWithinBounds(str) ==
    LET citems == Split(str)
        rest == IF AtomMatch(citems[1]).ok THEN Tail(citems) ELSE citems
    IN  \A i \in 1..Len(rest) :
            LET tok == rest[i]
                ds == TakeWhile(SubSeq(tok, 3, Len(tok)), Digits)
            IN  (Len(tok) >= 2 /\ tok[1] \in Digits /\ tok[2] \in SubshellSet) =>
                    /\ tok[1] /= "0"
                    /\ ds = <<>> \/ (StrToInt(ds) >= 1 /\ StrToInt(ds) <= Capacity(tok[2]))

\* C12 as claimed: in every model produced by parse, for any input string,
\* every key has a positive n and a canonical subshell and every occupancy of
\* core, valence and conf is positive and at most 2*(2*index(s)+1).
C12_Claimed ==
    (ret.op = "parse" /\ phase = "parsed") =>
        WithinBounds(core) /\ WithinBounds(valence) /\ WithinBounds(conf)

\* C12 amended: the same, for input strings whose shell tokens write a
\* positive n and an occupancy that is left out or within 1 and the capacity.
C12_Bounds ==
    (ret.op = "parse" /\ phase = "parsed" /\ TokensWithinBounds(confstr)) =>
        WithinBounds(core) /\ WithinBounds(valence) /\ WithinBounds(conf)

C12_Witness ==
    /\ ret.op = "parse"
    /\ phase = "parsed"
    /\ TokensWithinBounds(confstr)
    /\ <<4, "f">> \in Keys(core)
    /\ <<2, "p">> \in Keys(valence)
    /\ Value(conf, <<2, "p">>) = 1
    /\ Value(conf, <<4, "f">>) = 14

====
